---- MODULE Spec2Model ----
(***************************************************************************)
(* MongoDbManager (src/index.js): the connect pipeline of one manager.     *)
(* _handleConnection runs four steps in an async.waterfall (connection,    *)
(* fetchCollections, initializeCollectionIndex, exportVariables) and, in   *)
(* the waterfall's final callback, publishes the connection and registers  *)
(* its listeners.  Every callback of the code (a timer, a settled promise, *)
(* a driver callback) is one action; what a callback runs synchronously,   *)
(* the later steps it starts included, is part of that action.             *)
(***************************************************************************)
(***************************************************************************)
(* Spec follows one connect.  LifeSpec follows a manager through several   *)
(* connects and disconnects with the driver's events, SurfaceSpec through  *)
(* the same with the callers of its collection surface, and SetterSpec     *)
(* follows assignments to connectionTimeoutMs.                             *)
(***************************************************************************)
EXTENDS Integers, Sequences, FiniteSets

\* Collection names an initialization may configure.
Names == {"a", "b"}

\* Most index entries one configured collection carries.
MaxIndexes == 2

DEFAULT_TIMEOUT_CONNECTION_MS == 2000

\* The number n, among the values a timeout can be: [kind, n], the kind being
\* "number", "string" (the digits of n), "NaN", "nil" or "other".
Number(n) == [kind |-> "number", n |-> n]

VARIABLES
  mongoDbOptions,   \* properties.mongoDbOptions.collections: <<[name, index]>>
  properties,       \* the manager's published properties
  listeners,        \* <<handle, event>> pairs the manager listens on
  context,          \* the pipeline context the steps share
  conn,             \* the closure variables of the connection step
  db,               \* the driver handle of this attempt
  fetch,            \* per configured collection: its db.collection() request
  jobs,             \* per index task: its state
  pipe,             \* the waterfall: current step, async.parallel's latch
  log,              \* history: what was called, how often, with what
  connectResult,    \* the promise _handleConnection returned
  attempt,          \* how many times _handleConnection has been called
  life,             \* the lifecycle around the pipeline: state, disconnect, events
  initialization,   \* the objects of an initialize call and what it stored
  stale,            \* the connection step's closure of an abandoned attempt
  dispatch          \* the promises the event listeners wait for

vars == <<mongoDbOptions, properties, listeners, context, conn, db, fetch, jobs,
          pipe, log, connectResult, attempt, life, initialization,
          stale, dispatch>>

----------------------------------------------------------------------------
\* Values that travel through callbacks: errors and what a hook settles with.

Val(t, n) == [type |-> t, of |-> n]

Undefined == Val("undefined", 0)            \* undefined or null
FalsyValue == Val("falsy", 0)               \* 0, "", false, NaN
PlainValue == Val("value", 0)               \* truthy, not an Error
UserError == Val("UserError", 0)            \* an Error instance of the hook's

\* What an overridden _handlePostConnection may resolve or reject with.
HookValues == {Undefined, FalsyValue, PlainValue, UserError}

Truthy(v) == v.type \notin {"undefined", "falsy"}
IsNil(v) == v.type = "undefined"
InstanceOfError(v) == v.type \notin {"undefined", "falsy", "value"}

TimedOutException == Val("TimedOutException", 0)
ConnectError == Val("ConnectError", 0)      \* errorToReturn, cause: driver's
BaseError == Val("BaseError", 0)            \* "Post connection failed"
CloseError == Val("CloseError", 0)          \* db.close(true) rejected
TypeError == Val("TypeError", 0)            \* property read of undefined
FetchError(i) == Val("FetchError", i)       \* db.collection(name_i) failed
MissingCollection(j) == Val("MissingCollection", j)
NoCreateIndex(j) == Val("NoCreateIndex", j)
CreateIndexError(j) == Val("CreateIndexError", j)

\* The handles the driver hands out, a fresh pair for every attempt.
DbHandles == <<"db1", "db2", "db3">>
ClientHandles == <<"client1", "client2", "client3">>

\* The handles the driver hands out in this attempt.
DbHandle == IF attempt \in DOMAIN DbHandles THEN DbHandles[attempt] ELSE "db"
ClientHandle ==
  IF attempt \in DOMAIN ClientHandles THEN ClientHandles[attempt] ELSE "client"

EmptyRegistry == [n \in {} |-> "nil"]

Stages == <<"connection", "fetchCollections", "initializeCollectionIndex",
            "exportVariables">>

----------------------------------------------------------------------------
\* Objects and references.  The options an initialize call stores, and the
\* options object of a caller, are arrays of collection options kept in
\* initialization.heap; the address of an object is its index there.

\* An object of the heap: an array of references, or a collection option.
Array(items) == [kind |-> "array", items |-> items, name |-> "", index |-> 0]

CollectionOption(name, index) ==
  [kind |-> "collection", items |-> <<>>, name |-> name, index |-> index]

\* The value of the array at an address: its collection options, in order.
Deref(heap, address) ==
  IF address = 0 THEN <<>>
  ELSE [i \in DOMAIN heap[address].items |->
          [name |-> heap[heap[address].items[i]].name,
           index |-> heap[heap[address].items[i]].index]]

\* The objects an array at an address is made of, itself included.
Reach(heap, address) ==
  IF address = 0 THEN {}
  ELSE {address} \cup {heap[address].items[i] : i \in DOMAIN heap[address].items}

\* A new array of new collection options with the given values.
Allocate(heap, items) ==
  heap \o [i \in DOMAIN items |-> CollectionOption(items[i].name, items[i].index)]
       \o <<Array([i \in DOMAIN items |-> Len(heap) + i])>>

----------------------------------------------------------------------------
\* The state as one record, for the synchronous call chains.

World ==
  [mongoDbOptions |-> mongoDbOptions, properties |-> properties,
   listeners |-> listeners, context |-> context, conn |-> conn, db |-> db,
   fetch |-> fetch, jobs |-> jobs, pipe |-> pipe, log |-> log,
   connectResult |-> connectResult, attempt |-> attempt, life |-> life,
   initialization |-> initialization, stale |-> stale,
   dispatch |-> dispatch]

\* The base machine (ConnectableObject, outside this repository) around the
\* two hooks: Disconnected -> Connecting -> Connected -> Disconnecting ->
\* Disconnected.  A failed connect falls back to Disconnected, a failed
\* disconnect to the state the disconnect started from.
BaseMachine(w) ==
  [w EXCEPT !.life.currentState =
     IF @ = "Connecting" /\ w.connectResult.state = "resolved" THEN "Connected"
     ELSE IF @ = "Connecting" /\ w.connectResult.state = "rejected" THEN "Disconnected"
     ELSE IF @ = "Disconnecting" /\ w.life.disconnect.state = "resolved" THEN "Disconnected"
     ELSE IF @ = "Disconnecting" /\ w.life.disconnect.state = "rejected" THEN w.life.prior
     ELSE @]

Commit(w) ==
  /\ mongoDbOptions' = w.mongoDbOptions
  /\ properties' = w.properties
  /\ listeners' = w.listeners
  /\ context' = w.context
  /\ conn' = w.conn
  /\ db' = w.db
  /\ fetch' = w.fetch
  /\ jobs' = w.jobs
  /\ pipe' = w.pipe
  /\ log' = w.log
  /\ connectResult' = w.connectResult
  /\ attempt' = w.attempt
  /\ life' = BaseMachine(w).life
  /\ initialization' = w.initialization
  /\ stale' = w.stale
  /\ dispatch' = w.dispatch

\* Mutant: the steps read this.properties.mongoDbOptions.collections.
ManagerOptions(w) == w.mongoDbOptions

\* context.mongoDbOptions.collections: the steps read the options through the
\* reference the pipeline context was given when the attempt started.
ContextOptions(w) == Deref(w.initialization.heap, w.context.mongoDbOptions)

\* A step called stepDone(error): counted, and remembered as the step's outcome.
Reported(w, stage, error) ==
  [w EXCEPT !.log.stepDoneCalls[stage] = @ + 1,
            !.log.stageError = IF w.pipe.stage = stage THEN error ELSE @,
            !.log.failedStage =
               IF w.pipe.stage = stage /\ Truthy(error) THEN stage ELSE @]

Entered(w, stage) ==
  [w EXCEPT !.pipe.stage = stage, !.log.stagesRun = Append(@, stage)]

----------------------------------------------------------------------------
\* _handleConnection's waterfall callback (_handleTasksDone).

\* The three listeners the callback registers on the published handle.
RegisteredListeners(h) == {<<h, "error">>, <<h, "connect">>, <<h, "reconnect">>}

\* Mutant: the callback takes only an Error instance for a failure.
TasksFailedOnErrorInstance(error) == InstanceOfError(error)

\* The callback's "if (error)".
TasksFailed(error) == Truthy(error)

\* Mutant: the callback exposes the handles before it looks at the error.
_handleTasksDoneExposing(w, error) ==
  LET exposed ==
        [w EXCEPT !.pipe.stage = "done",
                  !.properties.mongoClientInstance = w.context.mongoClientInstance,
                  !.properties.mongoDataBase = w.context.mongoDataBase]
  IN IF TasksFailed(error)
     THEN [exposed EXCEPT !.connectResult = [state |-> "rejected", error |-> error]]
     ELSE IF w.context.mongoDataBase = "undefined"
     THEN [exposed EXCEPT !.properties.currentConnexionContext = "undefined"]
     ELSE [exposed EXCEPT
             !.properties.currentConnexionContext = w.context.mongoDataBase,
             !.listeners = @ \cup RegisteredListeners(w.context.mongoDataBase),
             !.connectResult = [state |-> "resolved", error |-> Undefined]]

_handleTasksDone(w, error) ==
  IF TasksFailed(error)
  THEN [w EXCEPT !.pipe.stage = "done",
                 !.connectResult = [state |-> "rejected", error |-> error]]
  ELSE LET exposed ==
             [w EXCEPT !.pipe.stage = "done",
                       !.properties.mongoClientInstance = w.context.mongoClientInstance,
                       !.properties.mongoDataBase = w.context.mongoDataBase,
                       !.properties.currentConnexionContext = w.context.mongoDataBase]
       IN IF w.context.mongoDataBase = "undefined"
          THEN exposed        \* undefined.on(...) throws: the promise stays pending
          ELSE [exposed EXCEPT
                  !.listeners = @ \cup RegisteredListeners(w.context.mongoDataBase),
                  !.connectResult = [state |-> "resolved", error |-> Undefined]]

----------------------------------------------------------------------------
\* Step 4, exportVariables.

exportVariables(w) ==
  LET w1 == Entered(w, "exportVariables")
      w2 == [w1 EXCEPT !.properties.virtualCollections = DOMAIN w.context.collections,
                       !.properties.mongoDbCollections =
                          [set |-> TRUE, map |-> w.context.collections,
                           db |-> w.context.mongoDataBase]]
  IN _handleTasksDone(Reported(w2, "exportVariables", Undefined), Undefined)

----------------------------------------------------------------------------
\* Step 3, initializeCollectionIndex.

\* The tasks list: one task per index entry, in configuration order; a
\* collection without index entries contributes none.
RECURSIVE IndexTasks(_)
IndexTasks(collections) ==
  IF collections = <<>> THEN <<>>
  ELSE [k \in 1..Head(collections).index |->
          [name |-> Head(collections).name, index |-> k]]
       \o IndexTasks(Tail(collections))

\* Mutant: _parallelDone drops the error.
ParallelFailedNever(error) == FALSE

\* _parallelDone's "if (error)".
ParallelFailed(error) == Truthy(error)

\* async.parallel's final callback, _parallelDone: the step's stepDone.
_parallelDone(w, error) ==
  LET reported == IF ParallelFailed(error) THEN error ELSE Undefined
      w1 == Reported(w, "initializeCollectionIndex", reported)
  IN IF w.pipe.stage # "initializeCollectionIndex" THEN w1
     ELSE IF Truthy(reported) THEN _handleTasksDone(w1, reported)
     ELSE exportVariables(w1)

\* Whether async.parallel still listens to its tasks: it calls its final
\* callback once, on the first error or when every task has completed.
ParallelOpen(p) == ~p.parallelDone

\* Mutant: async.parallel finishes with the first task that completes.
FirstTaskCompletes(w) == TRUE

\* async.parallel counts the completed tasks: this one is the last.
LastTaskCompletes(w) ==
  w.pipe.completed + 1 = Len(IndexTasks(ContextOptions(w)))

\* The callback async.parallel hands to each task.
taskDone(w, j, error) ==
  LET w1 == [w EXCEPT !.jobs[j] = IF Truthy(error) THEN "failed" ELSE "ok",
                      !.log.firstFailed =
                         IF @ = 0 /\ Truthy(error) THEN j ELSE @]
  IN IF ~ParallelOpen(w.pipe) THEN w1
     ELSE IF Truthy(error)
          THEN _parallelDone([w1 EXCEPT !.pipe.parallelDone = TRUE], error)
     ELSE IF LastTaskCompletes(w)
          THEN _parallelDone([w1 EXCEPT !.pipe.parallelDone = TRUE,
                                        !.pipe.completed = @ + 1], Undefined)
     ELSE [w1 EXCEPT !.pipe.completed = @ + 1]

\* Mutant: only the key's presence is tested.
CollectionKeyMissing(collections, name) == name \notin DOMAIN collections

\* "!context.collections[collectionName]"
CollectionMissing(collections, name) ==
  name \notin DOMAIN collections \/ collections[name] = "nil"

\* "!_.isFunction(context.collections[collectionName].createIndex)"
CreateIndexMissing(collections, name) == collections[name] = "nofn"

_taskCreateIndex(w, j) ==
  LET name == IndexTasks(ContextOptions(w))[j].name
  IN IF CollectionMissing(w.context.collections, name)
     THEN taskDone(w, j, MissingCollection(j))
     ELSE IF CreateIndexMissing(w.context.collections, name)
     THEN taskDone(w, j, NoCreateIndex(j))
     ELSE [w EXCEPT !.jobs[j] = "pending",
                    !.log.createIndexCalls = @ \cup {j}]

\* async.parallel starts every task in order, whatever the earlier ones did.
RECURSIVE StartTasks(_, _)
StartTasks(w, j) ==
  IF j > Len(IndexTasks(ContextOptions(w))) THEN w
  ELSE StartTasks(_taskCreateIndex(w, j), j + 1)

\* "if (collectionsWithIndex.length === 0)"
NoIndexTasks(tasks) == Len(tasks) = 0

initializeCollectionIndex(w) ==
  LET w1 == Entered(w, "initializeCollectionIndex")
      tasks == IndexTasks(ContextOptions(w))
  IN IF NoIndexTasks(tasks)
     THEN w1                            \* returns without calling stepDone
     ELSE StartTasks([w1 EXCEPT !.jobs = [j \in 1..Len(tasks) |-> "idle"]], 1)

----------------------------------------------------------------------------
\* Step 2, fetchCollections.

\* The step's stepDone, called once Promise.all(fetchPromises) has settled.
fetchDone(w, error) ==
  LET w1 == Reported(w, "fetchCollections", error)
  IN IF w.pipe.stage # "fetchCollections" THEN w1
     ELSE IF Truthy(error) THEN _handleTasksDone(w1, error)
     ELSE initializeCollectionIndex(w1)

\* Mutant: every name gets what the first request resolved with.
ResolvedWithFirst(w) ==
  [n \in {ContextOptions(w)[i].name : i \in DOMAIN ContextOptions(w)} |-> w.fetch[1]]

\* The registry the step builds from the resolved requests.
Resolved(w) ==
  [n \in {ContextOptions(w)[i].name : i \in DOMAIN ContextOptions(w)} |->
     w.fetch[CHOOSE i \in DOMAIN ContextOptions(w) : ContextOptions(w)[i].name = n]]

fetchCollections(w) ==
  LET w1 == Entered(w, "fetchCollections")
      n == Len(ContextOptions(w))
  IN IF n = 0
     THEN fetchDone(w1, Undefined)      \* Promise.all([]) resolves
     ELSE IF w.context.mongoDataBase = "undefined"
     THEN \* undefined.collection(...) throws in every promise's executor
          fetchDone([w1 EXCEPT !.fetch = [i \in 1..n |-> "threw"]], TypeError)
     ELSE [w1 EXCEPT !.fetch = [i \in 1..n |-> "pending"]]

----------------------------------------------------------------------------
\* Step 1, connection.

\* The step's stepDone.
connectionDone(w, error) ==
  LET w1 == Reported(w, "connection", error)
  IN IF w.pipe.stage # "connection" THEN w1
     ELSE IF Truthy(error) THEN _handleTasksDone(w1, error)
     ELSE fetchCollections(w1)

\* Mutant: the driver callbacks do not look at the flag.
NeverTimedOut(c) == FALSE

\* "if (connectionTimedOut)" of _mongoConnectionSuccess and _mongoConnectionError
AlreadyTimedOut(c) == c.connectionTimedOut

\* Mutant: the timer's callback does not look at the id.
TimeoutNeverDisarmed(c) == FALSE

\* "if (!connectionTimeoutId)" of _connectionTimeout
TimeoutDisarmed(c) == c.connectionTimeoutId # "timer"

\* clearTimeout(connectionTimeoutId); connectionTimeoutId = undefined
ClearTimeout(c) ==
  [c EXCEPT !.connectionTimeoutId = "undefined",
            !.timer = IF @ = "armed" THEN "cleared" ELSE @]

\* Mutant: the flag is not raised.
MarkTimedOutIdOnly(c) == [c EXCEPT !.connectionTimeoutId = "null"]

\* connectionTimeoutId = null; connectionTimedOut = true
MarkTimedOut(c) ==
  [c EXCEPT !.connectionTimeoutId = "null", !.connectionTimedOut = TRUE]

\* Mutant: "if (userError !== undefined)".
HookVetoesUnlessUndefined(userError) == ~IsNil(userError)

\* "if (userError)" of _handlePostConnectionCallback
HookVetoes(userError) == Truthy(userError)

\* The error _handlePostConnectionCallback reports for a veto.
VetoError(userError) ==
  IF InstanceOfError(userError) THEN userError ELSE BaseError

\* db.close(true), with the error its "then" branch will report.
CloseDb(w, error) ==
  [w EXCEPT !.db = "closing", !.conn.error = error, !.log.closeCalls = @ + 1]

\* Accept connection: the handles enter the pipeline context.
Accept(c) ==
  [c EXCEPT !.mongoClientInstance = ClientHandle, !.mongoDataBase = DbHandle]

\* Mutant: the listeners are registered as soon as the hook has accepted.
_handlePostConnectionCallbackListening(w, userError) ==
  IF HookVetoes(userError)
  THEN CloseDb(w, VetoError(userError))
  ELSE connectionDone([w EXCEPT !.context = Accept(@),
                                !.listeners = @ \cup RegisteredListeners(DbHandle)],
                      Undefined)

_handlePostConnectionCallback(w, userError) ==
  IF HookVetoes(userError)
  THEN CloseDb(w, VetoError(userError))
  ELSE connectionDone([w EXCEPT !.context = Accept(@)], Undefined)

\* The error the close's "catch" branch reports: its own parameter.
CloseFailureError(kept, closeError) == closeError

----------------------------------------------------------------------------
\* The initial state: a constructed manager, initialized with valid options.

CollectionOptions == [name : Names, index : 0..MaxIndexes]

\* The collection lists an initialization may store: distinct names, any order.
ValidCollections ==
  {c \in UNION {[1..n -> CollectionOptions] : n \in 0..Cardinality(Names)} :
     \A i, k \in DOMAIN c : i # k => c[i].name # c[k].name}

StepNames == {Stages[i] : i \in DOMAIN Stages}

\* The waterfall and the history of an attempt before it starts.
IdlePipe == [stage |-> "idle", parallelDone |-> FALSE, completed |-> 0]

EmptyLog ==
  [stagesRun |-> <<>>,
   stepDoneCalls |-> [s \in StepNames |-> 0],
   stageError |-> Undefined, failedStage |-> "none",
   firstFailed |-> 0,
   hookCalls |-> 0, hookArg |-> Undefined,
   hookSettled |-> "none", hookValue |-> Undefined,
   closeCalls |-> 0, createIndexCalls |-> {},
   timedOutFirst |-> FALSE,
   started |-> [connectionTimeoutMs |-> [kind |-> "nil", n |-> 0],
                collections |-> <<>>]]

\* Nothing has been assigned to connectionTimeoutMs yet.
NothingAssigned ==
  [v |-> [kind |-> "none", n |-> 0],
   before |-> Number(DEFAULT_TIMEOUT_CONNECTION_MS)]

\* No disconnect has been asked for since the last connect.
NoDisconnect == [state |-> "none", error |-> Undefined, handle |-> "undefined"]

\* The properties of a constructed manager.
NewProperties ==
  [connectionTimeoutMs |-> Number(DEFAULT_TIMEOUT_CONNECTION_MS),
   mongoDataBase |-> "undefined",
   mongoClientInstance |-> "undefined",
   virtualCollections |-> {},
   mongoDbCollections |->
      [set |-> FALSE, map |-> EmptyRegistry, db |-> "undefined"],
   currentConnexionContext |-> "undefined"]

\* An options object that supplies nothing.
NoOptions ==
  [connectionString |-> [supplied |-> FALSE, text |-> ""],
   collections |-> [supplied |-> FALSE, items |-> <<>>],
   connectionTimeoutMs |-> [supplied |-> FALSE, kind |-> "nil", n |-> 0]]

\* No initialize call is followed: no object of a caller is around.
NoInitialization ==
  [heap |-> <<>>, stored |-> 0, connectionString |-> "cs", input |-> 0,
   called |-> FALSE, result |-> [state |-> "none", error |-> Undefined],
   options |-> NoOptions,
   before |-> [collections |-> <<>>, stored |-> 0, connectionString |-> "cs",
               connectionTimeoutMs |-> Number(DEFAULT_TIMEOUT_CONNECTION_MS)],
   mutations |-> 0]

\* The connection step has not run: its variables do not exist.
NoClosure ==
  [connectionTimeoutId |-> "undefined", connectionTimedOut |-> FALSE,
   timer |-> "none", delay |-> [kind |-> "nil", n |-> 0],
   driver |-> "none", hook |-> "none", error |-> Undefined]

\* Everything of a constructed manager but its options and properties.
Constructed ==
  /\ listeners = {}
  /\ context = [mongoDbOptions |-> 0,
                mongoDataBase |-> "undefined",
                mongoClientInstance |-> "undefined",
                connectionTimeoutMs |-> Number(DEFAULT_TIMEOUT_CONNECTION_MS),
                collections |-> EmptyRegistry]
  /\ conn = NoClosure
  /\ stale = NoClosure
  /\ dispatch = [pending |-> "none", calls |-> 0, failed |-> 0, logged |-> 0,
                 unhandled |-> 0, reason |-> Undefined,
                 before |-> [properties |-> properties, listeners |-> listeners]]
  /\ db = "none"
  /\ fetch = <<>>
  /\ jobs = <<>>
  /\ pipe = IdlePipe
  /\ log = EmptyLog
  /\ connectResult = [state |-> "none", error |-> Undefined]
  /\ attempt = 0
  /\ life = [currentState |-> "Disconnected", prior |-> "Disconnected",
             disconnect |-> NoDisconnect,
             before |-> [properties |-> properties, listeners |-> listeners],
             lostCalls |-> 0, reconnectedCalls |-> 0,
             freeCalls |-> <<>>, held |-> {}, written |-> FALSE,
             assigned |-> NothingAssigned]

Init ==
  /\ mongoDbOptions \in ValidCollections
  /\ properties = NewProperties
  /\ initialization =
        [NoInitialization EXCEPT
           !.heap = Allocate(<<>>, mongoDbOptions),
           !.stored = Len(mongoDbOptions) + 1,
           !.before.collections = mongoDbOptions,
           !.before.stored = Len(mongoDbOptions) + 1]
  /\ Constructed

----------------------------------------------------------------------------
\* The actions: one per callback.

\* The listeners a context's freeContext removes: 'close', 'connect', 'reconnect'.
FreedListeners(h) == {<<h, "close">>, <<h, "connect">>, <<h, "reconnect">>}

\* currentConnexionContext.freeContext(), for the context of handle h.
freeContext(w, h) ==
  [w EXCEPT !.listeners = @ \ FreedListeners(h),
            !.life.freeCalls = Append(@, h)]

\* _handleConnection up to the first step's return: the previous context is
\* freed, the pipeline context is built, the timer is armed and the driver's
\* connect is called.
_handleConnection(w0) ==
  LET freed == IF w0.properties.currentConnexionContext # "undefined"
               THEN [freeContext(w0, w0.properties.currentConnexionContext)
                       EXCEPT !.properties.currentConnexionContext = "undefined"]
               ELSE w0
      w == [freed EXCEPT
              !.attempt = @ + 1,
              !.life.currentState = "Connecting",
              !.life.disconnect = NoDisconnect,
              !.context = [mongoDbOptions |-> w0.initialization.stored,
                           mongoDataBase |-> "undefined",
                           mongoClientInstance |-> "undefined",
                           connectionTimeoutMs |-> w0.properties.connectionTimeoutMs,
                           collections |-> EmptyRegistry],
              !.connectResult = [state |-> "pending", error |-> Undefined],
              !.log.started =
                 [connectionTimeoutMs |-> w0.properties.connectionTimeoutMs,
                  collections |-> w0.mongoDbOptions],
              !.conn = [connectionTimeoutId |-> "timer",
                        connectionTimedOut |-> FALSE, timer |-> "armed",
                        delay |-> w0.properties.connectionTimeoutMs,
                        driver |-> "pending", hook |-> "none",
                        error |-> Undefined]]
  IN Entered(w, "connection")

\* The first connect of a constructed, initialized manager.
Connect ==
  /\ connectResult.state = "none"
  /\ Commit(_handleConnection(World))

\* The timer's callback.  clearTimeout cancels it; the model lets a cleared
\* timer's callback run all the same, which is what the code's guard is for.
ConnectionTimeout ==
  /\ conn.timer \in {"armed", "cleared"}
  /\ LET w == [World EXCEPT !.conn.timer = "ran"]
     IN IF TimeoutDisarmed(conn)
        THEN Commit(w)
        ELSE Commit(connectionDone(
               [w EXCEPT !.conn = MarkTimedOut(@),
                         !.log.timedOutFirst = (conn.driver = "pending")],
               TimedOutException))

\* The driver's connect promise resolves with a handle.
MongoConnectionSuccess ==
  /\ conn.driver = "pending"
  /\ LET w == [World EXCEPT !.conn.driver = "success", !.db = "open"]
     IN IF AlreadyTimedOut(conn)
        THEN Commit(w)
        ELSE Commit([w EXCEPT !.conn = [ClearTimeout(@) EXCEPT !.hook = "afterSuccess"],
                              !.log.hookCalls = @ + 1,
                              !.log.hookArg = Undefined])

\* The driver's connect promise rejects.
MongoConnectionError ==
  /\ conn.driver = "pending"
  /\ LET w == [World EXCEPT !.conn.driver = "error"]
     IN IF AlreadyTimedOut(conn)
        THEN Commit(w)
        ELSE Commit([w EXCEPT !.conn = [ClearTimeout(@) EXCEPT !.hook = "afterError"],
                              !.log.hookCalls = @ + 1,
                              !.log.hookArg = ConnectError])

HookSettled(w, how, v) ==
  [w EXCEPT !.conn.hook = "settled", !.log.hookSettled = how, !.log.hookValue = v]

\* _handlePostConnection's promise resolves with v.
PostConnectionResolved ==
  \E v \in HookValues :
    \/ /\ conn.hook = "afterSuccess"
       /\ Commit(_handlePostConnectionCallback(HookSettled(World, "resolved", v), v))
    \/ /\ conn.hook = "afterError"
       /\ Commit(connectionDone(HookSettled(World, "resolved", v), ConnectError))

\* _handlePostConnection's promise rejects with v.
PostConnectionRejected ==
  \E v \in HookValues :
    \/ /\ conn.hook = "afterSuccess"
       /\ IF IsNil(v)
          THEN Commit(HookSettled(World, "rejected", v))  \* error.message throws
          ELSE Commit(CloseDb(HookSettled(World, "rejected", v), v))
    \/ /\ conn.hook = "afterError"
       /\ Commit(connectionDone(HookSettled(World, "rejected", v), v))

\* db.close(true) settles.
CloseSettled ==
  /\ db = "closing"
  /\ \/ Commit(connectionDone([World EXCEPT !.db = "closed"], conn.error))
     \/ Commit(connectionDone([World EXCEPT !.db = "closeFailed"],
                              CloseFailureError(conn.error, CloseError)))

FetchOutcomes == {"error", "collection", "nofn", "nil"}

\* The driver answers db.collection(name_i, undefined, callback).
FetchCallback ==
  \E i \in DOMAIN fetch, outcome \in FetchOutcomes :
    /\ fetch[i] = "pending"
    /\ LET w == [World EXCEPT !.fetch[i] = outcome]
       IN IF pipe.stage # "fetchCollections"
          THEN Commit(w)                \* Promise.all has settled already
          ELSE IF outcome = "error"
          THEN Commit(fetchDone(w, FetchError(i)))
          ELSE IF \A k \in DOMAIN fetch : w.fetch[k] \notin {"pending", "error"}
          THEN Commit(fetchDone([w EXCEPT !.context.collections = Resolved(w)],
                                Undefined))
          ELSE Commit(w)

\* A createIndex promise settles.
CreateIndexSettled ==
  \E j \in DOMAIN jobs :
    /\ jobs[j] = "pending"
    /\ \/ Commit(taskDone(World, j, Undefined))
       \/ Commit(taskDone(World, j, CreateIndexError(j)))

Next ==
  \/ Connect
  \/ ConnectionTimeout
  \/ MongoConnectionSuccess
  \/ MongoConnectionError
  \/ PostConnectionResolved
  \/ PostConnectionRejected
  \/ CloseSettled
  \/ FetchCallback
  \/ CreateIndexSettled

Spec == Init /\ [][Next]_vars

----------------------------------------------------------------------------
\* The manager over its life: connect again, disconnect, the driver's events
\* on the handles the manager listens on, and the collection surface.

\* Most connects one manager is taken through.
MaxConnects == 2

\* Most calls of _onConnectionLost and _onReconnected, together, that are
\* followed.
MaxEvents == 1

\* Most index tasks a configuration followed over several connects carries.
MaxLifeTasks == 1

\* The initial state, with the smaller configurations.
LifeInit ==
  /\ Init
  /\ Len(IndexTasks(mongoDbOptions)) <= MaxLifeTasks

\* The base machine runs one operation at a time.
Idle == connectResult.state # "pending" /\ life.disconnect.state # "pending"

\* A later attempt starts from a pipeline of its own: the steps' closures and
\* requests are created per call.
Fresh(w) ==
  [w EXCEPT !.db = "none", !.fetch = <<>>, !.jobs = <<>>, !.pipe = IdlePipe,
            !.log = EmptyLog]

\* connect() on a manager that has been connected before.
ConnectAgain ==
  /\ connectResult.state \in {"resolved", "rejected"}
  /\ Idle
  /\ attempt < MaxConnects
  /\ Commit(_handleConnection(Fresh(World)))

\* Mutant: the disconnection never finds a context to free.
ContextToDestroyNever(p) == FALSE

\* _handleClosed's "if (this.properties.currentConnexionContext)".
ContextToDestroy(p) == p.currentConnexionContext # "undefined"

\* The "then" of mongoDataBase.close(): _handleClosed.
_handleClosed(w) ==
  LET freed == IF ContextToDestroy(w.properties)
               THEN [freeContext(w, w.properties.currentConnexionContext)
                       EXCEPT !.properties.currentConnexionContext = "undefined"]
               ELSE w
  IN [freed EXCEPT !.properties.mongoDataBase = "undefined",
                   !.properties.mongoClientInstance = "undefined",
                   !.db = IF w.life.disconnect.handle = DbHandle THEN "closed" ELSE @,
                   !.life.disconnect.state = "resolved"]

\* Mutant: the "catch" tears the connection down like the "then".
_handleClosedErrorReleasing(w, error) ==
  [_handleClosed(w) EXCEPT !.life.disconnect.state = "rejected",
                           !.life.disconnect.error = error]

\* The "catch" after it.
_handleClosedError(w, error) ==
  [w EXCEPT !.life.disconnect.state = "rejected", !.life.disconnect.error = error]

\* Reading .close of an undefined mongoDataBase throws.
NothingToClose(p) == p.mongoDataBase = "undefined"

\* _handleDisconnection up to its return: close() is called on the published
\* handle inside the promise's executor, where a throw rejects the promise.
_handleDisconnection(w) ==
  LET w1 == [w EXCEPT
               !.life.prior = w.life.currentState,
               !.life.currentState = "Disconnecting",
               !.life.before = [properties |-> w.properties,
                                listeners |-> w.listeners],
               !.life.disconnect = [state |-> "pending", error |-> Undefined,
                                    handle |-> w.properties.mongoDataBase]]
  IN IF NothingToClose(w.properties)
     THEN _handleClosedError(w1, TypeError)
     ELSE w1

Disconnect ==
  /\ Idle
  /\ Commit(_handleDisconnection(World))

\* mongoDataBase.close() settles.
DisconnectCloseSettled ==
  /\ life.disconnect.state = "pending"
  /\ \/ Commit(_handleClosed(World))
     \/ Commit(_handleClosedError(World, CloseError))

\* Mutant: the listeners never ignore an event.
IgnoredNever(state) == FALSE

\* _handleMongoDbConnectionClosed's
\* "if (this.currentState === States.Disconnecting) return".
IgnoredWhileDisconnecting(state) == state = "Disconnecting"

\* The 'error' listener; _onConnectionLost is the base machine's.
_handleMongoDbConnectionClosed(w) ==
  IF IgnoredWhileDisconnecting(w.life.currentState)
  THEN w
  ELSE [w EXCEPT !.life.lostCalls = @ + 1]

\* Mutant: the reconnection listener never ignores an event.
ReconnectionIgnoredNever(state) == FALSE

\* _handleReconnection's "if (this.currentState === States.Disconnecting)".
ReconnectionIgnored(state) == state = "Disconnecting"

\* The 'connect' and 'reconnect' listener; _onReconnected is the base machine's.
_handleReconnection(w) ==
  IF ReconnectionIgnored(w.life.currentState)
  THEN w
  ELSE [w EXCEPT !.life.reconnectedCalls = @ + 1]

\* The handles the driver has handed out so far.
OpenedHandles == {DbHandles[i] : i \in 1..attempt}

\* The driver emits 'error' on handle h: every listener registered for it runs.
DriverError(h) ==
  /\ life.lostCalls + life.reconnectedCalls < MaxEvents
  /\ IF <<h, "error">> \in listeners
     THEN Commit(_handleMongoDbConnectionClosed(World))
     ELSE Commit(World)

EmitError == \E h \in OpenedHandles : DriverError(h)

\* The driver emits 'connect' or 'reconnect' on handle h.
DriverReconnect(h, event) ==
  /\ life.lostCalls + life.reconnectedCalls < MaxEvents
  /\ IF <<h, event>> \in listeners
     THEN Commit(_handleReconnection(World))
     ELSE Commit(World)

EmitReconnect ==
  \E h \in OpenedHandles, event \in {"connect", "reconnect"} : DriverReconnect(h, event)

\* A collection handle: the db handle it was resolved from, its name, and
\* what the driver answered for it.  NoHandle is undefined.
NoHandle == [db |-> "undefined", name |-> "", kind |-> "undefined"]

\* Property names every plain object inherits from Object.prototype.
ObjectPrototype == {"toString"}

\* collections[key]: the registry is the plain object the pipeline context
\* was created with, so a key it does not own is looked up in its prototype.
PropertyRead(registry, key) ==
  IF key \in DOMAIN registry.map
  THEN [db |-> registry.db, name |-> key, kind |-> registry.map[key]]
  ELSE IF key \in ObjectPrototype
  THEN [db |-> "Object.prototype", name |-> key, kind |-> "function"]
  ELSE NoHandle

\* What "||" takes for false among the values a registry entry can have.
Falsy(h) == h.kind \in {"undefined", "nil"}

\* What getCollectionByName is called with: a string, or something else.
LookupArgs == [isString : BOOLEAN, text : Names \cup {"zz"} \cup ObjectPrototype]

String(n) == [isString |-> TRUE, text |-> n]

getCollectionByName(p, collectionName) ==
  IF ~collectionName.isString
  THEN NoHandle
  ELSE IF p.mongoDbCollections.set
  THEN LET found == PropertyRead(p.mongoDbCollections, collectionName.text)
       IN IF Falsy(found) THEN NoHandle ELSE found
  ELSE NoHandle

\* Mutant: the accessor returns the handle its surface was built with.
_getCollectionCaptured(p, surface, n) ==
  LET found == PropertyRead(surface.captured, n)
  IN IF Falsy(found) THEN NoHandle ELSE found

\* The getter of accessor n of a surface.
_getCollection(p, surface, n) == getCollectionByName(p, String(n))

\* Mutant: the setter stores the value in the registry.
_setCollectionStores(w, n, v) ==
  [w EXCEPT !.properties.mongoDbCollections.map =
     [k \in DOMAIN @ |-> IF k = n THEN v ELSE @[k]]]

\* The setter of every accessor: an empty function.
_setCollection(w, n, v) == w

\* A caller reads manager.collections and keeps the surface.
ReadCollections ==
  /\ properties.virtualCollections # {}
  /\ Commit([World EXCEPT !.life.held = @ \cup
               {[names |-> properties.virtualCollections,
                 captured |-> properties.mongoDbCollections]}])

\* A caller assigns to accessor n of a surface it holds.
WriteAccessor ==
  \E surface \in life.held, v \in {"collection", "nil"} :
    \E n \in surface.names :
      Commit([_setCollection(World, n, v) EXCEPT !.life.written = TRUE])

\* The manager and the driver's events.
LifeNext ==
  \/ Next
  \/ ConnectAgain
  \/ Disconnect
  \/ DisconnectCloseSettled
  \/ EmitError
  \/ EmitReconnect

LifeSpec == LifeInit /\ [][LifeNext]_vars

\* The manager and the callers of its collection surface.
SurfaceNext ==
  \/ Next
  \/ ConnectAgain
  \/ Disconnect
  \/ DisconnectCloseSettled
  \/ ReadCollections
  \/ WriteAccessor

SurfaceSpec == LifeInit /\ [][SurfaceNext]_vars

----------------------------------------------------------------------------
\* The connectionTimeoutMs property.

\* What a caller may assign: null or undefined, a number, NaN, or a value
\* that is not a number (a string of digits, an object, a boolean).
TimeoutInputs ==
  [kind : {"nil", "NaN"}, n : {0}]
    \cup [kind : {"number"}, n : {-5, 0, 1, 1999, 2000, 3000}]
    \cup [kind : {"other"}, n : {0, 3000}]

\* The setter's "this.properties.connectionTimeoutMs === v".
SameTimeout(p, v) == v.kind = "number" /\ p.connectionTimeoutMs = v

\* _.isNumber(v): NaN is a number.
IsNumber(v) == v.kind \in {"number", "NaN"}

\* Mutant: the setter takes zero as well.
NotNegative(v) == v.kind = "number" /\ v.n >= 0

\* The setter's "v > 0"; NaN > 0 is false.
Positive(v) == v.kind = "number" /\ v.n > 0

\* The setter of connectionTimeoutMs.
connectionTimeoutMs(p, v) ==
  IF SameTimeout(p, v) THEN p
  ELSE IF v.kind = "nil"
  THEN [p EXCEPT !.connectionTimeoutMs = Number(DEFAULT_TIMEOUT_CONNECTION_MS)]
  ELSE IF IsNumber(v) /\ Positive(v)
  THEN [p EXCEPT !.connectionTimeoutMs = v]
  ELSE p

\* A caller assigns v to manager.connectionTimeoutMs.
SetConnectionTimeoutMs ==
  \E v \in TimeoutInputs :
    Commit([World EXCEPT
              !.properties = connectionTimeoutMs(@, v),
              !.life.assigned = [v |-> v, before |-> properties.connectionTimeoutMs]])

SetterNext == SetConnectionTimeoutMs

SetterSpec == Init /\ [][SetterNext]_vars

----------------------------------------------------------------------------
\* _handleInitialization, and the caller's options object after the call.

\* Most changes the caller makes to its options object after the call.
MaxMutations == 1

IllegalArgumentException == Val("IllegalArgumentException", 0)

\* Mutant: _.clone, a new array of the same elements.
clone(heap, address) == heap \o <<Array(heap[address].items)>>

\* _.cloneDeep(options.collections): a new array of copies of the elements.
\* Its address is the last of the heap it returns.
cloneDeep(heap, address) == Allocate(heap, Deref(heap, address))

\* What an options object may hold.  Collection names: empty, or a name.
InputCollections ==
  UNION {[1..n -> [name : {"", "a"}, index : {0, 1}]] : n \in 0..Cardinality(Names)}

InitializeOptions ==
  [connectionString : {[supplied |-> FALSE, text |-> ""]}
                        \cup [supplied : {TRUE}, text : {"", " ", "cs2"}],
   collections : {[supplied |-> FALSE, items |-> <<>>]}
                   \cup [supplied : {TRUE}, items : InputCollections],
   connectionTimeoutMs :
     {[supplied |-> FALSE, kind |-> "nil", n |-> 0]}
       \cup [supplied : {TRUE}, kind : {"number"}, n : {0, 999, 1000, 3000}]
       \cup [supplied : {TRUE}, kind : {"string"}, n : {999, 1500}]]

\* Joi's string().trim(): the value is trimmed before min(1) is tested.
Trim(text) == IF text = " " THEN "" ELSE text

\* Joi.number() under the default "convert": a number is taken as it is, a
\* string of digits as the number it spells.
JoiNumber(v) == Number(v.n)

\* Mutant: the schema without connectionTimeoutMs's min(1000).
SchemaErrorWithoutMin(o) ==
  ~ /\ o.connectionString.supplied /\ Trim(o.connectionString.text) # ""
    /\ o.collections.supplied
    /\ \A i \in DOMAIN o.collections.items : Trim(o.collections.items[i].name) # ""

\* Joi.validate(options, _handleInitializationOptionsSchema) reports an error.
SchemaError(o) ==
  ~ /\ o.connectionString.supplied /\ Trim(o.connectionString.text) # ""
    /\ o.collections.supplied
    /\ \A i \in DOMAIN o.collections.items : Trim(o.collections.items[i].name) # ""
    /\ o.connectionTimeoutMs.supplied => JoiNumber(o.connectionTimeoutMs).n >= 1000

\* Mutant: the timeout of the options is never taken.
TimeoutNeverGiven(o) == FALSE

\* "if (options.connectionTimeoutMs)"
TimeoutGiven(o) ==
  /\ o.connectionTimeoutMs.supplied
  /\ o.connectionTimeoutMs.kind = "number" => o.connectionTimeoutMs.n # 0

\* _handleInitialization(options), options.collections being at init.input.
_handleInitialization(w, o) ==
  IF SchemaError(o)
  THEN [w EXCEPT !.initialization.result =
                    [state |-> "rejected", error |-> IllegalArgumentException]]
  ELSE LET heap == cloneDeep(w.initialization.heap, w.initialization.input)
           w1 == [w EXCEPT !.initialization.heap = heap,
                           !.initialization.stored = Len(heap),
                           !.initialization.connectionString = o.connectionString.text,
                           !.initialization.result =
                              [state |-> "resolved", error |-> Undefined]]
       IN IF TimeoutGiven(o)
          THEN [w1 EXCEPT !.properties.connectionTimeoutMs =
                             [kind |-> o.connectionTimeoutMs.kind,
                              n |-> o.connectionTimeoutMs.n]]
          ELSE w1

\* properties.mongoDbOptions.collections is read through its reference.
Stored(w) ==
  [w EXCEPT !.mongoDbOptions = Deref(w.initialization.heap, w.initialization.stored)]

\* A caller builds the options object o and calls initialize with it.
InitializeWith(o) ==
  LET heap == IF o.collections.supplied
              THEN Allocate(initialization.heap, o.collections.items)
              ELSE initialization.heap
      w == [World EXCEPT
              !.initialization.called = TRUE,
              !.initialization.options = o,
              !.initialization.before =
                 [collections |-> mongoDbOptions,
                  stored |-> initialization.stored,
                  connectionString |-> initialization.connectionString,
                  connectionTimeoutMs |-> properties.connectionTimeoutMs],
              !.initialization.heap = heap,
              !.initialization.input =
                 IF o.collections.supplied THEN Len(heap) ELSE 0]
  IN Commit(Stored(_handleInitialization(w, o)))

Initialize ==
  /\ ~initialization.called
  /\ \E o \in InitializeOptions : InitializeWith(o)

\* After the call the caller changes an element of options.collections: its
\* name, or its index array.
CallerChangesElement ==
  /\ initialization.called
  /\ initialization.input # 0
  /\ initialization.mutations < MaxMutations
  /\ \E i \in DOMAIN initialization.heap[initialization.input].items :
       LET element == initialization.heap[initialization.input].items[i]
       IN \/ Commit(Stored([World EXCEPT
                              !.initialization.heap[element].name = "b",
                              !.initialization.mutations = @ + 1]))
          \/ Commit(Stored([World EXCEPT
                              !.initialization.heap[element].index = @ + 1,
                              !.initialization.mutations = @ + 1]))

\* After the call the caller removes the last element of options.collections.
CallerChangesArray ==
  /\ initialization.called
  /\ initialization.input # 0
  /\ initialization.mutations < MaxMutations
  /\ initialization.heap[initialization.input].items # <<>>
  /\ Commit(Stored([World EXCEPT
                      !.initialization.heap[initialization.input].items =
                         SubSeq(@, 1, Len(@) - 1),
                      !.initialization.mutations = @ + 1]))

\* A manager that has not been initialized, or one that has been before.
InitializeInit ==
  /\ \E timeout \in {DEFAULT_TIMEOUT_CONNECTION_MS, 5000} :
       properties = [NewProperties EXCEPT !.connectionTimeoutMs = Number(timeout)]
  /\ \E earlier \in {<<>>, <<[name |-> "a", index |-> 1]>>} :
       LET heap == IF earlier = <<>> THEN <<>> ELSE Allocate(<<>>, earlier)
           connectionString == IF earlier = <<>> THEN "" ELSE "cs"
       IN /\ mongoDbOptions = earlier
          /\ initialization =
                [NoInitialization EXCEPT
                   !.heap = heap, !.stored = Len(heap),
                   !.connectionString = connectionString,
                   !.before = [collections |-> earlier, stored |-> Len(heap),
                               connectionString |-> connectionString,
                               connectionTimeoutMs |-> properties.connectionTimeoutMs]]
  /\ Constructed

InitializeNext ==
  \/ Initialize
  \/ CallerChangesElement
  \/ CallerChangesArray

InitializeSpec == InitializeInit /\ [][InitializeNext]_vars

----------------------------------------------------------------------------
\* A connect after an attempt that timed out while the driver's promise of
\* that attempt is still pending.  Each call of the connection step has its
\* own connectionTimeoutId, connectionTimedOut and mongoClientInstance, and
\* its own context and stepDone; the promise keeps the first call's
\* _mongoConnectionSuccess and _mongoConnectionError.

\* connect() after the timeout: the closure of the abandoned attempt stays
\* reachable from the driver's pending promise.
ConnectAfterTimeout ==
  /\ connectResult.state = "rejected"
  /\ conn.connectionTimedOut
  /\ conn.driver = "pending"
  /\ stale.driver = "none"
  /\ Idle
  /\ attempt < MaxConnects
  /\ Commit(_handleConnection([Fresh(World) EXCEPT !.stale = conn]))

\* A driver callback of the abandoned attempt, on that attempt's variables.
\* Past the guard it would clear its own timer and call the manager's
\* _handlePostConnection.
_staleCallback(w, outcome, hook, arg) ==
  LET w1 == [w EXCEPT !.stale.driver = outcome]
  IN IF AlreadyTimedOut(w.stale)
     THEN w1
     ELSE [w1 EXCEPT !.stale = [ClearTimeout(@) EXCEPT !.hook = hook],
                     !.log.hookCalls = @ + 1,
                     !.log.hookArg = arg]

\* The abandoned attempt's promise resolves.
StaleMongoConnectionSuccess ==
  /\ stale.driver = "pending"
  /\ Commit(_staleCallback(World, "success", "afterSuccess", Undefined))

\* The abandoned attempt's promise rejects.
StaleMongoConnectionError ==
  /\ stale.driver = "pending"
  /\ Commit(_staleCallback(World, "error", "afterError", ConnectError))

StaleNext ==
  \/ Next
  \/ ConnectAfterTimeout
  \/ StaleMongoConnectionSuccess
  \/ StaleMongoConnectionError

StaleSpec == LifeInit /\ [][StaleNext]_vars

----------------------------------------------------------------------------
\* The event listeners and the promises of _onConnectionLost and
\* _onReconnected they wait for.  The two methods are the base machine's and
\* may be overridden; what they reject with is theirs to choose.

\* Most listener calls whose promise is followed.
MaxDispatches == 2

\* What _onConnectionLost or _onReconnected may reject with.
Reasons == {Undefined, FalsyValue, PlainValue, UserError}

\* "error.message": a property can be read of anything but undefined and null.
Readable(v) == ~IsNil(v)

\* The rejection handlers of the two listeners:
\* "error => { this.logger.error(..., error.message, error.stack); }".
\* When the arguments cannot be evaluated nothing is logged and the promise
\* "then" returned, which nobody holds, rejects with the TypeError.
_handledWithError(w, error) ==
  LET w1 == [w EXCEPT !.dispatch.pending = "none",
                      !.dispatch.failed = @ + 1,
                      !.dispatch.reason = error,
                      !.dispatch.before =
                         [properties |-> w.properties, listeners |-> w.listeners]]
  IN IF Readable(error)
     THEN [w1 EXCEPT !.dispatch.logged = @ + 1]
     ELSE [w1 EXCEPT !.dispatch.unhandled = @ + 1]

\* The driver emits 'error' on a handle that carries the manager's listener.
ListenerError ==
  /\ dispatch.pending = "none"
  /\ dispatch.calls < MaxDispatches
  /\ \E h \in OpenedHandles :
       /\ <<h, "error">> \in listeners
       /\ ~IgnoredWhileDisconnecting(life.currentState)
       /\ Commit([_handleMongoDbConnectionClosed(World) EXCEPT
                    !.dispatch.pending = "_onConnectionLost",
                    !.dispatch.calls = @ + 1])

\* The driver emits 'connect' or 'reconnect' on such a handle.
ListenerReconnection ==
  /\ dispatch.pending = "none"
  /\ dispatch.calls < MaxDispatches
  /\ \E h \in OpenedHandles, event \in {"connect", "reconnect"} :
       /\ <<h, event>> \in listeners
       /\ ~ReconnectionIgnored(life.currentState)
       /\ Commit([_handleReconnection(World) EXCEPT
                    !.dispatch.pending = "_onReconnected",
                    !.dispatch.calls = @ + 1])

\* The promise of _onConnectionLost or _onReconnected resolves.
DispatchResolved ==
  /\ dispatch.pending # "none"
  /\ Commit([World EXCEPT !.dispatch.pending = "none"])

\* The promise of _onConnectionLost or _onReconnected rejects.
DispatchRejected ==
  /\ dispatch.pending # "none"
  /\ \E error \in Reasons : Commit(_handledWithError(World, error))

ListenerNext ==
  \/ Next
  \/ ListenerError
  \/ ListenerReconnection
  \/ DispatchResolved
  \/ DispatchRejected

ListenerSpec == LifeInit /\ [][ListenerNext]_vars

----------------------------------------------------------------------------
\* connect() again and again, each attempt running its whole pipeline.

RetryNext ==
  \/ Next
  \/ ConnectAgain

RetrySpec == LifeInit /\ [][RetryNext]_vars

----------------------------------------------------------------------------
\* The handle of the running or last attempt emits events from the moment
\* the driver has handed it out.

EmitOnNewHandle ==
  /\ db # "none"
  /\ \/ DriverError(DbHandle)
     \/ \E event \in {"connect", "reconnect"} : DriverReconnect(DbHandle, event)

NewHandleNext ==
  \/ Next
  \/ ConnectAgain
  \/ EmitOnNewHandle

NewHandleSpec == LifeInit /\ [][NewHandleNext]_vars

----------------------------------------------------------------------------
\* The active timeout from construction on: assignments to
\* connectionTimeoutMs before and after an initialize call.

\* Options that differ in what matters to the timeout: valid or not, and
\* the connectionTimeoutMs they carry.
TimeoutOptions ==
  {o \in InitializeOptions :
     /\ o.collections = [supplied |-> TRUE, items |-> <<>>]
     /\ o.connectionString.text \in {"", "cs2"}}

InitializeTimeout ==
  /\ ~initialization.called
  /\ \E o \in TimeoutOptions : InitializeWith(o)

\* A manager just constructed.
TimeoutInit ==
  /\ properties = NewProperties
  /\ mongoDbOptions = <<>>
  /\ initialization =
        [NoInitialization EXCEPT !.connectionString = "",
                                 !.before.connectionString = ""]
  /\ Constructed

TimeoutNext ==
  \/ SetConnectionTimeoutMs
  \/ InitializeTimeout

TimeoutSpec == TimeoutInit /\ [][TimeoutNext]_vars

----------------------------------------------------------------------------
\* While a connect attempt is in flight the caller assigns another timeout
\* or initializes the manager again.

\* What the caller assigns in flight: another number, or null.
InFlightTimeouts == {Number(3000), [kind |-> "nil", n |-> 0]}

SetTimeoutInFlight ==
  /\ connectResult.state = "pending"
  /\ \E v \in InFlightTimeouts :
       Commit([World EXCEPT !.properties = connectionTimeoutMs(@, v)])

\* The options of the second initialize call: other collections, with or
\* without a timeout of their own.
InFlightOptions ==
  {o \in InitializeOptions :
     /\ o.connectionString = [supplied |-> TRUE, text |-> "cs2"]
     /\ o.collections.supplied
     /\ o.collections.items \in {<<>>, <<[name |-> "a", index |-> 1],
                                         [name |-> "a", index |-> 0]>>}
     /\ o.connectionTimeoutMs.n \in {0, 3000}}

InitializeInFlight ==
  /\ connectResult.state = "pending"
  /\ ~initialization.called
  /\ \E o \in InFlightOptions : InitializeWith(o)

InFlightNext ==
  \/ Next
  \/ SetTimeoutInFlight
  \/ InitializeInFlight

InFlightSpec == LifeInit /\ [][InFlightNext]_vars

----------------------------------------------------------------------------
\* The claims.

\* A callback that can still move the attempt on is outstanding.
Outstanding ==
  \/ conn.driver = "pending"
  \/ conn.connectionTimeoutId = "timer"
  \/ conn.hook \in {"afterSuccess", "afterError"}
  \/ db = "closing"
  \/ \E i \in DOMAIN fetch : fetch[i] = "pending"
  \/ \E j \in DOMAIN jobs : jobs[j] = "pending"

\* The driver connected in time and the post-connection hook let it pass.
HookAccepted ==
  /\ conn.driver = "success"
  /\ log.hookSettled = "resolved"
  /\ ~Truthy(log.hookValue)

\* C1: with zero configured collections, once the driver has connected and
\* the post-connection hook has succeeded, the connect operation resolves
\* (at once, or some callback that will resolve it is still outstanding),
\* and then the published collection surface has no entries.
C1_ZeroCollectionsConnectResolves ==
  (mongoDbOptions = <<>> /\ HookAccepted) =>
     /\ connectResult.state = "resolved" \/ Outstanding
     /\ connectResult.state = "resolved" => properties.virtualCollections = {}

\* C2: the connection step calls stepDone at most once, and the deadline and
\* the driver's callbacks never both consume the attempt: once the deadline
\* has consumed it, no hook runs and no close is issued.
C2_ConnectionReportsOnce ==
  /\ log.stepDoneCalls["connection"] <= 1
  /\ conn.connectionTimedOut => (log.hookCalls = 0 /\ log.closeCalls = 0)

C2_Witness ==
  /\ conn.connectionTimedOut
  /\ conn.driver \in {"success", "error"}
  /\ log.stepDoneCalls["connection"] = 1

\* C3: when the deadline fires before the driver reports, the attempt fails
\* with TimedOut; whatever the driver reports afterwards, the hook is not
\* invoked, no handle enters the pipeline context and no later step runs.
C3_TimeoutFirstIsFinal ==
  log.timedOutFirst =>
     /\ connectResult = [state |-> "rejected", error |-> TimedOutException]
     /\ log.hookCalls = 0
     /\ context.mongoDataBase = "undefined"
     /\ context.mongoClientInstance = "undefined"
     /\ log.stagesRun = <<"connection">>

C3_Witness == log.timedOutFirst /\ conn.driver = "success"

\* C4: when the driver connected and the hook reported failure with an Error
\* (by resolving with it or by rejecting with it), then once the close call
\* has settled, well or not, the attempt has failed with the hook's error.
C4_HookErrorSurvivesClose ==
  (/\ conn.driver = "success"
   /\ log.hookSettled \in {"resolved", "rejected"}
   /\ log.hookValue = UserError
   /\ db \in {"closed", "closeFailed"}) =>
     /\ log.closeCalls = 1
     /\ connectResult = [state |-> "rejected", error |-> UserError]

\* C5 as stated: when the driver connected in time and the hook's promise
\* resolved, with any value, the connection step has succeeded, the handle is
\* in the pipeline context and the connection is not closed.
C5_AnyResolutionAccepts ==
  (conn.driver = "success" /\ log.hookSettled = "resolved") =>
     /\ context.mongoDataBase = DbHandle
     /\ context.mongoClientInstance = ClientHandle
     /\ log.closeCalls = 0 /\ db = "open"
     /\ log.stepDoneCalls["connection"] = 1
     /\ Len(log.stagesRun) >= 2

\* C5, amended: when the driver connected in time and the hook's promise
\* resolved with a falsy value (undefined, null, 0, ...), the connection step
\* has succeeded (it called stepDone once, without error, and the next step
\* ran), the handle is in the pipeline context and the connection is not
\* closed.
C5_FalsyResolutionAccepts ==
  HookAccepted =>
     /\ context.mongoDataBase = DbHandle
     /\ context.mongoClientInstance = ClientHandle
     /\ log.closeCalls = 0 /\ db = "open"
     /\ log.stepDoneCalls["connection"] = 1
     /\ Len(log.stagesRun) >= 2 /\ log.stagesRun[2] = "fetchCollections"
     /\ log.failedStage # "connection"

C5_Witness == HookAccepted /\ log.hookValue = FalsyValue

\* C6: when the driver reported a connect error in time and the hook has
\* settled, the hook was invoked exactly once, with the error wrapping the
\* driver's, and the attempt has failed: with the wrapping error when the
\* hook resolved, with the hook's rejection value when it rejected.
C6_DriverErrorAlwaysFails ==
  (conn.driver = "error" /\ log.hookSettled # "none") =>
     /\ log.hookCalls = 1 /\ log.hookArg = ConnectError
     /\ connectResult.state = "rejected"
     /\ connectResult.error =
          IF log.hookSettled = "resolved" THEN ConnectError ELSE log.hookValue

\* C7: whenever the attempt has been reported as failed, no handle the driver
\* opened during it is left open.
C7_FailedAttemptLeavesNoOpenHandle ==
  connectResult.state = "rejected" => db # "open"

\* The steps run so far are the first steps of the pipeline, in its order.
StagesInOrder ==
  /\ Len(log.stagesRun) <= Len(Stages)
  /\ \A i \in DOMAIN log.stagesRun : log.stagesRun[i] = Stages[i]

\* C8: the steps run in the pipeline's order, the context and its listeners
\* are installed only after all four; and once a step has reported an error,
\* that step is the last one run, no context is installed, no listener is
\* registered, nothing is published and the connect operation has rejected
\* with that very error.
C8_StagesInOrderFailureStops ==
  /\ StagesInOrder
  /\ (properties.currentConnexionContext # "undefined" \/ listeners # {})
        => log.stagesRun = Stages
  /\ log.failedStage # "none" =>
        /\ log.stagesRun[Len(log.stagesRun)] = log.failedStage
        /\ Truthy(log.stageError)
        /\ connectResult = [state |-> "rejected", error |-> log.stageError]
        /\ properties.currentConnexionContext = "undefined"
        /\ properties.mongoDataBase = "undefined"
        /\ listeners = {}

C8_Witness ==
  /\ log.failedStage = "fetchCollections"
  /\ \E i \in DOMAIN fetch : fetch[i] = "collection"

\* The index step has started its tasks.
IndexTasksStarted == jobs # <<>>

\* Task j names a collection the registry cannot build an index on.
Unusable(j) ==
  LET name == IndexTasks(mongoDbOptions)[j].name
  IN \/ name \notin DOMAIN context.collections
     \/ context.collections[name] \in {"nil", "nofn"}

\* The error task j fails with when its collection is unusable.
UnusableError(j) ==
  LET name == IndexTasks(mongoDbOptions)[j].name
  IN IF name \in DOMAIN context.collections /\ context.collections[name] = "nofn"
     THEN NoCreateIndex(j) ELSE MissingCollection(j)

\* What an index task's error reads: its kind and the collection it names.
ErrorText(e) ==
  [type |-> e.type,
   name |-> IF e.of \in DOMAIN IndexTasks(mongoDbOptions)
            THEN IndexTasks(mongoDbOptions)[e.of].name ELSE "none"]

\* C9 as stated: every index task whose collection is absent from the
\* registry, or has no createIndex, fails without a createIndex call, and the
\* connect operation fails with that task's error (an error of that kind,
\* naming that collection).
C9_EveryUnusableTaskIsTheError ==
  IndexTasksStarted =>
    \A j \in DOMAIN jobs : Unusable(j) =>
       /\ j \notin log.createIndexCalls
       /\ jobs[j] = "failed"
       /\ connectResult.state = "rejected"
       /\ ErrorText(connectResult.error) = ErrorText(UnusableError(j))

\* C9, amended: every such task fails without a createIndex call, and the
\* connect operation fails with the error of the first such task in the
\* order of the configuration.
C9_FirstUnusableTaskIsTheError ==
  IndexTasksStarted =>
    \A j \in DOMAIN jobs : Unusable(j) =>
       /\ j \notin log.createIndexCalls
       /\ jobs[j] = "failed"
       /\ (\A k \in 1..(j - 1) : ~Unusable(k)) =>
             connectResult = [state |-> "rejected", error |-> UnusableError(j)]

C9_Witness ==
  /\ IndexTasksStarted
  /\ \E j, k \in DOMAIN jobs :
       /\ j < k /\ Unusable(j) /\ Unusable(k)
       /\ ErrorText(UnusableError(j)) # ErrorText(UnusableError(k))
       /\ connectResult = [state |-> "rejected", error |-> UnusableError(j)]

IndexErrorTypes == {"MissingCollection", "NoCreateIndex", "CreateIndexError"}

\* C10: the index step reports at most once; once a task has failed, the
\* connect operation has failed with the error of the first task that failed
\* and stays so whatever the other tasks do later; so when every task has
\* settled and exactly task k failed, the operation failed with k's error.
C10_FirstIndexFailureWins ==
  /\ log.stepDoneCalls["initializeCollectionIndex"] <= 1
  /\ log.firstFailed # 0 =>
       /\ connectResult.state = "rejected"
       /\ connectResult.error.of = log.firstFailed
       /\ connectResult.error.type \in IndexErrorTypes
  /\ \A k \in DOMAIN jobs :
       (jobs[k] = "failed" /\ \A j \in DOMAIN jobs \ {k} : jobs[j] = "ok") =>
          /\ connectResult.state = "rejected"
          /\ connectResult.error.of = k
          /\ connectResult.error.type \in IndexErrorTypes

C10_Witness ==
  /\ Len(jobs) >= 3
  /\ log.firstFailed = 2
  /\ jobs[1] = "ok" /\ jobs[3] = "failed"
  /\ connectResult.error = CreateIndexError(2)

\* Exactly one of several tasks failed, and it settled before the others.
C10_WitnessSingle ==
  /\ Len(jobs) >= 2
  /\ jobs[1] = "failed" /\ \A j \in DOMAIN jobs \ {1} : jobs[j] = "ok"
  /\ connectResult.error = CreateIndexError(1)

\* The handles the manager has a listener on.
ListenedHandles == {l[1] : l \in listeners}

\* C11: over any sequence of connects and disconnects, at most one handle
\* carries the manager's listeners: whenever a context is current, every
\* listener the manager has registered is on that context's handle.
C11_OneHandleCarriesListeners ==
  /\ Cardinality(ListenedHandles) <= 1
  /\ properties.currentConnexionContext # "undefined" =>
        ListenedHandles \subseteq {properties.currentConnexionContext}

\* C12: after a successful connect, one 'error' event of the driver on the
\* live handle invokes _onConnectionLost exactly once when the lifecycle
\* state is Connected, and does not invoke it when the state is Disconnecting.
C12_ErrorEventLosesConnectionOnce ==
  [][\A h \in OpenedHandles :
       (DriverError(h) /\ h = properties.currentConnexionContext) =>
          /\ life.currentState = "Connected" =>
                life'.lostCalls = life.lostCalls + 1
          /\ life.currentState = "Disconnecting" =>
                life'.lostCalls = life.lostCalls]_vars

\* The event arrived on the first connection while it was Connected.
C12_Witness ==
  /\ life.lostCalls = 1
  /\ attempt = 1
  /\ life.currentState = "Connected"
  /\ life.disconnect.state = "none"
  /\ properties.currentConnexionContext = DbHandles[1]

\* How many times the context of handle h has been freed.
FreeCalls(h) == Cardinality({i \in DOMAIN life.freeCalls : life.freeCalls[i] = h})

\* C13: once a disconnect that found a connection has closed it with
\* success, nativeInstance and the client instance are undefined, no context
\* is current and the context of the closed handle has been freed exactly once.
C13_DisconnectReleasesEverything ==
  life.disconnect.state = "resolved" =>
     /\ properties.mongoDataBase = "undefined"
     /\ properties.mongoClientInstance = "undefined"
     /\ properties.currentConnexionContext = "undefined"
     /\ FreeCalls(life.disconnect.handle) = 1

\* The disconnect itself freed the context of the connection it closed.
C13_Witness ==
  /\ life.disconnect.state = "resolved"
  /\ life.before.properties.currentConnexionContext = life.disconnect.handle
  /\ life.freeCalls = <<life.disconnect.handle>>

\* C14: when the close fails during a disconnect, the disconnect rejects
\* with the close's own error, and the context, the listeners, nativeInstance
\* and the client instance are what they were when the disconnect started.
C14_FailedCloseChangesNothing ==
  (life.disconnect.state = "rejected" /\ life.disconnect.handle # "undefined") =>
     /\ life.disconnect.error = CloseError
     /\ properties = life.before.properties
     /\ listeners = life.before.listeners

\* The close of a live connection, context and listeners in place, failed.
C14_Witness ==
  /\ life.disconnect.state = "rejected"
  /\ life.disconnect.handle # "undefined"
  /\ properties.currentConnexionContext = life.disconnect.handle
  /\ RegisteredListeners(life.disconnect.handle) \subseteq listeners

\* C15: after a successful disconnect the published registry is cleared:
\* getCollectionByName(name) is undefined for every configured name, and so
\* is every accessor of a surface published before.
C15_DisconnectClearsRegistry ==
  life.disconnect.state = "resolved" =>
     /\ \A n \in Names : getCollectionByName(properties, String(n)) = NoHandle
     /\ \A surface \in life.held : \A n \in surface.names :
           _getCollection(properties, surface, n) = NoHandle

\* C16: a disconnect that finds no connection (nativeInstance undefined)
\* either resolves and changes nothing, or rejects with a NotConnected error;
\* it never fails with another kind of error.
C16_DisconnectWithoutConnection ==
  (life.disconnect.handle = "undefined" /\ life.disconnect.state # "none") =>
     \/ /\ life.disconnect.state = "resolved"
        /\ properties = life.before.properties
        /\ listeners = life.before.listeners
     \/ /\ life.disconnect.state = "rejected"
        /\ life.disconnect.error.type = "NotConnected"

\* What the published registry holds under the name n at this moment.
RegistryHolds(n) ==
  LET registry == properties.mongoDbCollections
  IN IF registry.set /\ n \in DOMAIN registry.map /\ registry.map[n] # "nil"
     THEN [db |-> registry.db, name |-> n, kind |-> registry.map[n]]
     ELSE NoHandle

\* C17: reading the accessor n of any surface ever published returns what
\* the current registry holds for n at the time of the read, never a handle
\* captured when the surface was built: after a later connect has replaced
\* the registry, an accessor obtained before returns the new handle.
C17_AccessorReadsCurrentRegistry ==
  \A surface \in life.held : \A n \in surface.names :
     _getCollection(properties, surface, n) = RegistryHolds(n)

\* A surface built on the first connection is still held after the second
\* connect has published the collection handles of its own connection.
C17_Witness ==
  \E surface \in life.held : \E n \in surface.names :
     /\ surface.captured.db = DbHandles[1]
     /\ properties.mongoDbCollections.db = DbHandles[2]
     /\ RegistryHolds(n) = [db |-> DbHandles[2], name |-> n, kind |-> "collection"]

\* C18: assigning to an accessor of a surface changes nothing: the
\* registry, the surface and every other property of the manager, and so
\* what every accessor returns, are what they were before the write.
C18_AccessorWriteChangesNothing ==
  [][WriteAccessor =>
       /\ properties' = properties
       /\ listeners' = listeners
       /\ context' = context
       /\ life'.held = life.held]_vars

\* A write has been made to an accessor whose registry entry is a handle.
C18_Witness ==
  /\ life.written
  /\ \E surface \in life.held : \E n \in surface.names :
        RegistryHolds(n) # NoHandle

\* C19: getCollectionByName returns undefined when its argument is not a
\* string, when no registry has been published and when the registry has no
\* entry under the name; it returns the registry's handle when it has one.
C19_LookupIsTotal ==
  \A collectionName \in LookupArgs :
     getCollectionByName(properties, collectionName) =
        IF collectionName.isString THEN RegistryHolds(collectionName.text)
        ELSE NoHandle

\* C20: assigning to connectionTimeoutMs leaves the value as it was for a
\* number that is zero or negative and for anything that is not a number,
\* resets it to 2000 for null and undefined, and adopts every positive number.
C20_TimeoutSetter ==
  LET v == life.assigned.v
  IN v.kind # "none" =>
       properties.connectionTimeoutMs =
          IF v.kind = "nil" THEN Number(2000)
          ELSE IF v.kind = "number" /\ v.n > 0 THEN Number(v.n)
          ELSE life.assigned.before

\* A value other than the default was reset by assigning null.
C20_Witness ==
  /\ life.assigned.v.kind = "nil"
  /\ life.assigned.before = Number(3000)
  /\ properties.connectionTimeoutMs = Number(2000)

\* C24: when collections are configured but none of them has an index
\* entry, the index step succeeds at once and the pipeline goes on to publish
\* the accessors: once the step has been entered after an accepted
\* connection, the connect has resolved or a callback that can still
\* resolve it is outstanding.
C24_NoIndexJobsConnectResolves ==
  (/\ mongoDbOptions # <<>>
   /\ IndexTasks(mongoDbOptions) = <<>>
   /\ HookAccepted
   /\ pipe.stage = "initializeCollectionIndex") =>
     \/ connectResult.state = "resolved"
     \/ Outstanding

\* The driver's callback has cleared the deadline: it is the callback that
\* goes on to call the hook.
Disarmed ==
  /\ conn.driver \in {"success", "error"}
  /\ log.hookCalls > 0

\* C25: once a driver success or error has disarmed the deadline, the
\* attempt never fails with TimedOut, however long the hook or the close
\* after a veto takes: a timer callback that fires afterwards does nothing.
C25_DisarmedDeadlineIsInert ==
  Disarmed =>
     /\ ~conn.connectionTimedOut
     /\ connectResult.error # TimedOutException
     /\ log.stageError # TimedOutException
     /\ log.stepDoneCalls["connection"] <= 1

\* The timer's callback ran while the close after a veto was still pending.
C25_Witness ==
  /\ Disarmed
  /\ conn.timer = "ran"
  /\ db = "closing"
  /\ connectResult.state = "pending"

\* The names the initialization configured.
ConfiguredNames == {mongoDbOptions[i].name : i \in DOMAIN mongoDbOptions}

\* C27: collection resolution is all or nothing, in whatever order the
\* driver answers.  When every request has resolved, the registry of the
\* pipeline context maps each configured name to what its own request
\* resolved with.  When a request fails, the step fails with the error of a
\* failed request, the registry of the context stays empty, nothing is
\* published and the connect rejects with that error.
C27_ResolutionAllOrNothing ==
  /\ (/\ "initializeCollectionIndex" \in {log.stagesRun[k] : k \in DOMAIN log.stagesRun}
      /\ fetch # <<>>) =>
        /\ DOMAIN context.collections = ConfiguredNames
        /\ \A i \in DOMAIN mongoDbOptions :
              /\ fetch[i] \in {"collection", "nofn", "nil"}
              /\ context.collections[mongoDbOptions[i].name] = fetch[i]
  /\ log.failedStage = "fetchCollections" =>
        /\ \/ \E i \in DOMAIN fetch :
                 fetch[i] = "error" /\ log.stageError = FetchError(i)
           \/ log.stageError = TypeError /\ \A i \in DOMAIN fetch : fetch[i] = "threw"
        /\ context.collections = EmptyRegistry
        /\ ~properties.mongoDbCollections.set
        /\ properties.virtualCollections = {}
        /\ properties.mongoDataBase = "undefined"
        /\ connectResult = [state |-> "rejected", error |-> log.stageError]

\* One request had resolved with a collection when the other failed.
C27_Witness ==
  /\ log.failedStage = "fetchCollections"
  /\ \E i, k \in DOMAIN fetch : fetch[i] = "collection" /\ fetch[k] = "error"

\* Both requests resolved, with different answers.
C27_WitnessResolved ==
  /\ Len(fetch) = 2
  /\ fetch[1] = "collection" /\ fetch[2] = "nofn"
  /\ pipe.stage = "initializeCollectionIndex"

\* C28: with at least one index job, exportVariables runs only after every
\* index job has completed with success, in whatever order they complete.
C28_PublishAfterEveryIndexJob ==
  (jobs # <<>> /\ "exportVariables" \in {log.stagesRun[k] : k \in DOMAIN log.stagesRun}) =>
     \A j \in DOMAIN jobs : jobs[j] = "ok"

\* Several index jobs, all of them done, and the accessors published.
C28_Witness ==
  /\ Len(jobs) > 1
  /\ pipe.stage = "done"
  /\ connectResult.state = "resolved"
  /\ properties.mongoDbCollections.set

\* The handles whose context has been released.
ReleasedHandles == {life.freeCalls[i] : i \in DOMAIN life.freeCalls}

\* C29: once a context has been released, by a successful disconnect or by
\* the start of a new connect, no 'error', 'connect' or 'reconnect' event of
\* its former handle invokes _onConnectionLost or _onReconnected, whatever
\* the lifecycle state.
C29_ReleasedHandleIsSilent ==
  [][\A h \in ReleasedHandles :
       (\/ DriverError(h)
        \/ \E event \in {"connect", "reconnect"} : DriverReconnect(h, event)) =>
          /\ life'.lostCalls = life.lostCalls
          /\ life'.reconnectedCalls = life.reconnectedCalls]_vars

\* C30: after a successful connect, each 'connect' or 'reconnect' event of
\* the driver on the live handle invokes _onReconnected exactly once when the
\* lifecycle state is not Disconnecting, and not at all when it is.
C30_ReconnectEventReconnectsOnce ==
  [][\A h \in OpenedHandles : \A event \in {"connect", "reconnect"} :
       (DriverReconnect(h, event) /\ h = properties.currentConnexionContext) =>
          /\ life.currentState # "Disconnecting" =>
                life'.reconnectedCalls = life.reconnectedCalls + 1
          /\ life.currentState = "Disconnecting" =>
                life'.reconnectedCalls = life.reconnectedCalls]_vars

\* The event arrived on the first connection while it was Connected.
C30_Witness ==
  /\ life.reconnectedCalls = 1
  /\ life.lostCalls = 0
  /\ attempt = 1
  /\ life.currentState = "Connected"
  /\ life.disconnect.state = "none"
  /\ properties.currentConnexionContext = DbHandles[1]

\* C21: an initialize call whose options have a missing or empty
\* connectionString, no collections, a collection with an empty name, or a
\* connectionTimeoutMs below 1000 is rejected with the illegal-argument
\* error, and the stored connection string, the stored collections and the
\* active timeout are what they were before the call.
C21_InvalidOptionsChangeNothing ==
  LET o == initialization.options
      violates ==
        \/ ~o.connectionString.supplied
        \/ o.connectionString.text = ""
        \/ ~o.collections.supplied
        \/ \E i \in DOMAIN o.collections.items : o.collections.items[i].name = ""
        \/ o.connectionTimeoutMs.supplied /\ o.connectionTimeoutMs.n < 1000
  IN (initialization.called /\ violates) =>
       /\ initialization.result = [state |-> "rejected", error |-> IllegalArgumentException]
       /\ initialization.stored = initialization.before.stored
       /\ mongoDbOptions = initialization.before.collections
       /\ initialization.connectionString = initialization.before.connectionString
       /\ properties.connectionTimeoutMs = initialization.before.connectionTimeoutMs

\* A manager initialized before, with a timeout of its own, is given options
\* whose only fault is a connectionTimeoutMs of 999.
C21_Witness ==
  /\ initialization.called
  /\ initialization.before.stored # 0
  /\ initialization.before.connectionTimeoutMs = Number(5000)
  /\ initialization.options.connectionString.text = "cs2"
  /\ initialization.options.collections.items = <<[name |-> "a", index |-> 0]>>
  /\ initialization.options.connectionTimeoutMs =
       [supplied |-> TRUE, kind |-> "number", n |-> 999]
  /\ initialization.result.state = "rejected"

\* C22: after a successful initialize the stored collections have the value
\* options.collections had at the call, none of their objects is an object of
\* the caller's options, and they keep that value whatever the caller does to
\* its options afterwards.
C22_StoredCollectionsAreOwnCopy ==
  initialization.result.state = "resolved" =>
    /\ mongoDbOptions = initialization.options.collections.items
    /\ Reach(initialization.heap, initialization.stored)
         \cap Reach(initialization.heap, initialization.input) = {}

\* The caller has renamed a collection of its options after a successful
\* initialize.
C22_Witness ==
  /\ initialization.result.state = "resolved"
  /\ initialization.mutations > 0
  /\ Deref(initialization.heap, initialization.input) = <<[name |-> "b", index |-> 1]>>
  /\ mongoDbOptions = <<[name |-> "a", index |-> 1]>>

\* C23: after a successful initialize the active timeout is the
\* connectionTimeoutMs of the options when they have one, and the timeout that
\* was active before the call when they have none.
C23_TimeoutAdoptedWhenSupplied ==
  initialization.result.state = "resolved" =>
    properties.connectionTimeoutMs =
      IF initialization.options.connectionTimeoutMs.supplied
      THEN [kind |-> initialization.options.connectionTimeoutMs.kind,
            n |-> initialization.options.connectionTimeoutMs.n]
      ELSE initialization.before.connectionTimeoutMs

\* A manager whose timeout was 5000 is initialized with a timeout of 3000.
C23_Witness ==
  /\ initialization.result.state = "resolved"
  /\ initialization.before.connectionTimeoutMs = Number(5000)
  /\ initialization.options.connectionTimeoutMs =
       [supplied |-> TRUE, kind |-> "number", n |-> 3000]
  /\ properties.connectionTimeoutMs = Number(3000)

\* A manager never configured is initialized without a timeout.
C23_WitnessDefault ==
  /\ initialization.result.state = "resolved"
  /\ initialization.before.connectionTimeoutMs = Number(DEFAULT_TIMEOUT_CONNECTION_MS)
  /\ ~initialization.options.connectionTimeoutMs.supplied
  /\ properties.connectionTimeoutMs = Number(DEFAULT_TIMEOUT_CONNECTION_MS)

\* C26: once an attempt has timed out and another connect has started, the
\* arrival of the first attempt's driver success or error changes nothing of
\* the second attempt (its result, its timer and flags, its pipeline and
\* requests, its hook calls) and nothing the manager publishes.
C26_LateCallbackChangesNothing ==
  [][(stale.driver = "pending" /\ stale'.driver # "pending") =>
       UNCHANGED <<mongoDbOptions, properties, listeners, context, conn, db,
                   fetch, jobs, pipe, log, connectResult, attempt, life>>]_vars

\* The first attempt's driver success has arrived while the second attempt
\* waits for its own driver, its timer armed.
C26_Witness ==
  /\ attempt = 2
  /\ stale.connectionTimedOut
  /\ stale.driver = "success"
  /\ connectResult.state = "pending"
  /\ conn.driver = "pending"
  /\ conn.timer = "armed"

\* The first attempt's driver error has arrived after the second attempt
\* resolved.
C26_WitnessAfter ==
  /\ attempt = 2
  /\ stale.driver = "error"
  /\ connectResult.state = "resolved"

\* C31: whenever the promise of _onConnectionLost or _onReconnected has
\* rejected in a listener, every such failure has been logged, none has
\* become a rejection nobody handles, and the listeners and the manager's
\* properties (connection context, nativeInstance, registry) are what they
\* were when the promise rejected.
C31_ListenerFailureIsOnlyLogged ==
  dispatch.failed > 0 =>
    /\ dispatch.logged = dispatch.failed
    /\ dispatch.unhandled = 0
    /\ dispatch.pending = "none" =>
         /\ listeners = dispatch.before.listeners
         /\ properties = dispatch.before.properties

\* The part of C31 that holds: a rejection with a value whose message can be
\* read is logged and changes nothing.
C31_ReadableFailureIsOnlyLogged ==
  (dispatch.failed > 0 /\ dispatch.unhandled = 0) =>
    /\ dispatch.logged = dispatch.failed
    /\ dispatch.pending = "none" =>
         /\ listeners = dispatch.before.listeners
         /\ properties = dispatch.before.properties

\* What the manager publishes: nativeInstance, the client instance, the
\* collection registry and the collection surface.
Published ==
  <<properties.mongoDataBase, properties.mongoClientInstance,
    properties.mongoDbCollections, properties.virtualCollections>>

\* C32: from the start of a connect attempt to its failure, and after it, no
\* step changes what the manager publishes: a failed attempt leaves
\* nativeInstance, the client instance, the registry and the surface as they
\* were before it.
C32_FailedConnectPublishesNothing ==
  [][connectResult'.state \in {"pending", "rejected"} => Published' = Published]_vars

\* A second attempt, accepted by the hook, has failed in the index stage
\* while the manager still publishes the first attempt's handle and registry.
C32_Witness ==
  /\ attempt = 2
  /\ connectResult.state = "rejected"
  /\ connectResult.error.type = "CreateIndexError"
  /\ context.mongoDataBase = "db2"
  /\ properties.mongoDataBase = "db1"
  /\ properties.mongoDbCollections.db = "db1"

\* C33: in every state, a current connection context holds the handle that
\* nativeInstance returns.
C33_ContextHoldsNativeInstance ==
  properties.currentConnexionContext # "undefined" =>
    properties.currentConnexionContext = properties.mongoDataBase

\* The converse fails during a re-connect: the previous context is released
\* and nativeInstance still returns the previous handle.
C33_WitnessConverse ==
  /\ attempt = 2
  /\ connectResult.state = "pending"
  /\ properties.currentConnexionContext = "undefined"
  /\ properties.mongoDataBase = "db1"

\* A context exists and holds the second attempt's handle.
C33_Witness ==
  /\ properties.currentConnexionContext = "db2"
  /\ properties.mongoDataBase = "db2"

\* C34: the new handle carries a listener of the manager only when all four
\* stages have run and the attempt has resolved, and no step taken while
\* collections are being resolved or indexes built, an event of the new
\* handle included, calls _onConnectionLost or _onReconnected.
C34_NoListenerBeforePipelineEnds ==
  /\ [](\A event \in {"error", "connect", "reconnect"} :
          <<DbHandle, event>> \in listeners =>
            /\ log.stagesRun = Stages
            /\ connectResult.state = "resolved")
  /\ [][pipe.stage \in {"fetchCollections", "initializeCollectionIndex"} =>
          /\ life.lostCalls' = life.lostCalls
          /\ life.reconnectedCalls' = life.reconnectedCalls]_vars

\* The second attempt is building indexes on its handle, the hook having
\* accepted it, and no event has called the manager.
C34_Witness ==
  /\ attempt = 2
  /\ pipe.stage = "initializeCollectionIndex"
  /\ context.mongoDataBase = "db2"
  /\ connectResult.state = "pending"
  /\ life.lostCalls + life.reconnectedCalls = 0

\* After the attempt resolved, an 'error' event of the handle calls
\* _onConnectionLost.
C34_WitnessAfter ==
  /\ connectResult.state = "resolved"
  /\ <<DbHandle, "error">> \in listeners
  /\ life.lostCalls = 1

\* C36: in every state reached from construction by assignments to
\* connectionTimeoutMs and initialize calls, the active timeout is a number
\* greater than 0.
C36_ActiveTimeoutIsPositiveNumber ==
  /\ properties.connectionTimeoutMs.kind = "number"
  /\ properties.connectionTimeoutMs.n > 0

\* The part of C36 that holds: whatever its type, the active timeout spells a
\* number greater than 0, and one that an initialize call stored spells a
\* number of at least 1000.
C36_ActiveTimeoutSpellsPositive ==
  /\ properties.connectionTimeoutMs.kind \in {"number", "string"}
  /\ properties.connectionTimeoutMs.n > 0

\* C35: whatever is assigned to connectionTimeoutMs and whatever initialize
\* stores while an attempt is in flight, the attempt's timer keeps the delay
\* and its context the timeout that were active when it started, its requests
\* are one per collection and its jobs one per index entry of the options
\* stored when it started, and the registry it publishes has those
\* collections' names.
C35_AttemptKeepsItsTimeoutAndOptions ==
  connectResult.state # "none" =>
    /\ conn.delay = log.started.connectionTimeoutMs
    /\ context.connectionTimeoutMs = log.started.connectionTimeoutMs
    /\ ContextOptions(World) = log.started.collections
    /\ Len(fetch) \in {0, Len(log.started.collections)}
    /\ Len(jobs) \in {0, Len(IndexTasks(log.started.collections))}
    /\ \A j \in DOMAIN jobs :
         j \in log.createIndexCalls =>
           IndexTasks(log.started.collections)[j].name \in DOMAIN context.collections
    /\ connectResult.state = "resolved" =>
         DOMAIN properties.mongoDbCollections.map =
           {log.started.collections[i].name : i \in DOMAIN log.started.collections}

\* An attempt resolved with the registry of the options it started with,
\* after the manager was initialized with other collections and a timeout of
\* 3000 while the attempt was resolving its collections or later.
C35_Witness ==
  /\ connectResult.state = "resolved"
  /\ initialization.result.state = "resolved"
  /\ log.started.collections = <<[name |-> "b", index |-> 1]>>
  /\ mongoDbOptions = <<[name |-> "a", index |-> 1], [name |-> "a", index |-> 0]>>
  /\ DOMAIN properties.mongoDbCollections.map = {"b"}
  /\ properties.connectionTimeoutMs = Number(3000)
  /\ conn.delay = Number(DEFAULT_TIMEOUT_CONNECTION_MS)
====
